---- MODULE Spec2Model ----
(***************************************************************************)
(* Model of src/server.js: an Express gateway with a checkout endpoint     *)
(* (required-field check, card-number validation through card-validator    *)
(* and a local Luhn check, test-mode fixtures, production proxying) and a  *)
(* webhook endpoint (HMAC-SHA256 signature check behind the body-parser    *)
(* middleware chain).                                                      *)
(*                                                                         *)
(* Strings are sequences of one-character strings.  The functions of the   *)
(* imported packages (card-validator / credit-card-type, body-parser,      *)
(* crypto) are modelled by what the packages do at the call sites.         *)
(***************************************************************************)
EXTENDS Integers, Sequences, FiniteSets, TLC

VARIABLES
    env,        \* process.env.NODE_ENV
    req,        \* the request being served: method/url, headers, raw body bytes
    pc,         \* position in the middleware chain / handler
    body,       \* req.body as the current middleware or handler sees it
    bodyRead,   \* req._body, set by body-parser once a parser consumed the stream
    res,        \* the responses sent for this request, in order
    outcome,    \* checkout: result of the card validation block (lines 73-110)
    upstream,   \* checkout: number of fetch() calls to the payment API
    hmacArgs,   \* webhook: the values handed to Hmac.update(), in order
    verified,   \* webhook: computedSignature === signature was found true
    parses,     \* number of JSON parses of the request payload so far
    luhnArg,    \* argument of a direct luhnCheck call
    luhnRes     \* its result ("none" before the call)

vars == <<env, req, pc, body, bodyRead, res, outcome, upstream, hmacArgs,
          verified, parses, luhnArg, luhnRes>>

----------------------------------------------------------------------------
(* Characters and strings *)

DigitChars == {"0", "1", "2", "3", "4", "5", "6", "7", "8", "9"}

\* /\s/ : the whitespace characters of the inputs considered
IsSpace(c) == c \in {" ", "\t"}

\* parseInt(c, 10) of a one-character string; NaN for a non-digit
NaN == -1

parseInt(c) ==
    CASE c = "0" -> 0 [] c = "1" -> 1 [] c = "2" -> 2 [] c = "3" -> 3
      [] c = "4" -> 4 [] c = "5" -> 5 [] c = "6" -> 6 [] c = "7" -> 7
      [] c = "8" -> 8 [] c = "9" -> 9 [] OTHER -> NaN

\* s.replace(/\s+/g, '')
StripSpace(s) == SelectSeq(s, LAMBDA c : ~IsSpace(c))

\* String(value).replace(/-|\s/g, "")  (card-validator)
StripDashSpace(s) == SelectSeq(s, LAMBDA c : ~IsSpace(c) /\ c # "-")

\* /^\d*$/.test(s)
AllDigits(s) == \A i \in 1..Len(s) : s[i] \in DigitChars

----------------------------------------------------------------------------
(* luhnCheck, src/server.js lines 31-46 *)

\* the for loop of lines 36-44: i runs from the last index down to 1
\* (index 0 in the source), carrying sum and shouldDouble
\* lines 38-41: the digit as it enters the sum
LuhnDigit(digit, shouldDouble) ==
    IF digit = NaN THEN NaN
    ELSE IF shouldDouble
         THEN (IF digit * 2 > 9 THEN digit * 2 - 9 ELSE digit * 2)
         ELSE digit

\* sum += digit, of JavaScript numbers
Plus(sum, digit) == IF sum = NaN \/ digit = NaN THEN NaN ELSE sum + digit

RECURSIVE LuhnLoop(_, _, _, _)
LuhnLoop(s, i, sum, shouldDouble) ==
    IF i < 1 THEN sum
    ELSE LuhnLoop(s, i - 1,
                  Plus(sum, LuhnDigit(parseInt(s[i]), shouldDouble)),
                  ~shouldDouble)

\* variant: the doubling starts at the rightmost digit
LuhnSumDoubleFirst(strippedNumber) ==
    LuhnLoop(strippedNumber, Len(strippedNumber), 0, TRUE)

LuhnSum(strippedNumber) ==
    LuhnLoop(strippedNumber, Len(strippedNumber), 0, FALSE)

\* line 45: (sum % 10) === 0; NaN % 10 is NaN
DivisibleBy10(sum) == sum # NaN /\ sum % 10 = 0

luhnCheck(cardNumber) == DivisibleBy10(LuhnSum(StripSpace(cardNumber)))

----------------------------------------------------------------------------
(* valid.number of card-validator, called at src/server.js line 75, with   *)
(* the card-type table and matching of its dependency credit-card-type.    *)

\* A pattern is <<min, max>>; an exact pattern p is <<p, p>>.
\* The table in credit-card-type's test order.
CardTypes == <<
    [type |-> "visa", lengths |-> {16, 18, 19},
     patterns |-> << <<4, 4>> >>],
    [type |-> "mastercard", lengths |-> {16},
     patterns |-> << <<51, 55>>, <<2221, 2229>>, <<223, 229>>, <<23, 26>>,
                     <<270, 271>>, <<2720, 2720>> >>],
    [type |-> "american-express", lengths |-> {15},
     patterns |-> << <<34, 34>>, <<37, 37>> >>],
    [type |-> "diners-club", lengths |-> {14, 16, 19},
     patterns |-> << <<300, 305>>, <<36, 36>>, <<38, 38>>, <<39, 39>> >>],
    [type |-> "discover", lengths |-> {16, 19},
     patterns |-> << <<6011, 6011>>, <<644, 649>>, <<65, 65>> >>],
    [type |-> "jcb", lengths |-> {16, 17, 18, 19},
     patterns |-> << <<2131, 2131>>, <<1800, 1800>>, <<3528, 3589>> >>],
    [type |-> "unionpay", lengths |-> {14, 15, 16, 17, 18, 19},
     patterns |-> << <<620, 620>>, <<62100, 62182>>, <<62184, 62187>>,
                     <<62185, 62197>>, <<62200, 62205>>, <<622010, 622999>>,
                     <<622018, 622018>>, <<62207, 62209>>, <<623, 626>>,
                     <<6270, 6270>>, <<6272, 6272>>, <<6276, 6276>>,
                     <<627700, 627779>>, <<627781, 627799>>, <<6282, 6289>>,
                     <<6291, 6291>>, <<6292, 6292>>, <<810, 810>>,
                     <<8110, 8131>>, <<8132, 8151>>, <<8152, 8163>>,
                     <<8164, 8171>> >>],
    [type |-> "maestro", lengths |-> {12, 13, 14, 15, 16, 17, 18, 19},
     patterns |-> << <<493698, 493698>>, <<500000, 504174>>,
                     <<504176, 506698>>, <<506779, 508999>>, <<56, 59>>,
                     <<63, 63>>, <<67, 67>>, <<6, 6>> >>],
    [type |-> "elo", lengths |-> {16},
     patterns |-> << <<401178, 401178>>, <<401179, 401179>>,
                     <<438935, 438935>>, <<457631, 457631>>,
                     <<457632, 457632>>, <<431274, 431274>>,
                     <<451416, 451416>>, <<457393, 457393>>,
                     <<504175, 504175>>, <<506699, 506778>>,
                     <<509000, 509999>>, <<627780, 627780>>,
                     <<636297, 636297>>, <<636368, 636368>>,
                     <<650031, 650033>>, <<650035, 650051>>,
                     <<650405, 650439>>, <<650485, 650538>>,
                     <<650541, 650598>>, <<650700, 650718>>,
                     <<650720, 650727>>, <<650901, 650978>>,
                     <<651652, 651679>>, <<655000, 655019>>,
                     <<655021, 655058>> >>],
    [type |-> "mir", lengths |-> {16, 17, 18, 19},
     patterns |-> << <<2200, 2204>> >>],
    [type |-> "hiper", lengths |-> {16},
     patterns |-> << <<637095, 637095>>, <<63737423, 63737423>>,
                     <<63743358, 63743358>>, <<637568, 637568>>,
                     <<637599, 637599>>, <<637609, 637609>>,
                     <<637612, 637612>> >>],
    [type |-> "hipercard", lengths |-> {16},
     patterns |-> << <<606282, 606282>> >>] >>

Min(a, b) == IF a < b THEN a ELSE b

RECURSIVE Pow10(_)
Pow10(k) == IF k <= 0 THEN 1 ELSE 10 * Pow10(k - 1)

\* String(n).length
RECURSIVE NumLen(_)
NumLen(n) == IF n < 10 THEN 1 ELSE 1 + NumLen(n \div 10)

\* parseInt(s.substr(0, k), 10) for a digit string s
RECURSIVE ToInt(_, _)
ToInt(s, k) == IF k = 0 THEN 0 ELSE ToInt(s, k - 1) * 10 + parseInt(s[k])

\* parseInt(String(n).substr(0, k), 10)
Truncate(n, k) == IF NumLen(n) <= k THEN n ELSE n \div Pow10(NumLen(n) - k)

\* matches(cardNumber, pattern): the card number and the pattern agree on
\* the digits both have
InRange(n, pattern, k) ==
    n >= Truncate(pattern[1], k) /\ n <= Truncate(pattern[2], k)

MatchesUpTo(cardNumber, pattern, k) ==
    InRange(ToInt(cardNumber, k), pattern, k)

Matches(cardNumber, pattern) ==
    MatchesUpTo(cardNumber, pattern, Min(NumLen(pattern[1]), Len(cardNumber)))

\* index of the first pattern of a card type that matches, 0 when none does
FirstMatch(cardNumber, patterns) ==
    IF \E i \in 1..Len(patterns) : Matches(cardNumber, patterns[i])
    THEN CHOOSE i \in 1..Len(patterns) :
            /\ Matches(cardNumber, patterns[i])
            /\ \A j \in 1..(i - 1) : ~Matches(cardNumber, patterns[j])
    ELSE 0

\* addMatchingCardsToResults for one card type: the empty sequence, or the
\* type with matchStrength (0 = not set: the number is shorter than the
\* pattern)
Strength(cardNumber, patternLength) ==
    IF Len(cardNumber) >= patternLength THEN patternLength ELSE 0

MatchedCard(cardNumber, t, i) ==
    IF i = 0 THEN << >>
    ELSE << [type |-> t.type, lengths |-> t.lengths,
             matchStrength |->
                Strength(cardNumber, NumLen(t.patterns[i][1]))] >>

MatchingCard(cardNumber, t) ==
    MatchedCard(cardNumber, t, FirstMatch(cardNumber, t.patterns))

RECURSIVE MatchingCards(_, _)
MatchingCards(cardNumber, k) ==
    IF k = 0 THEN << >>
    ELSE MatchingCards(cardNumber, k - 1)
            \o MatchingCard(cardNumber, CardTypes[k])

\* findBestMatch: defined only when every result has a matchStrength; the
\* first result of the greatest strength
BestMatch(results) ==
    CHOOSE i \in 1..Len(results) :
        /\ \A j \in 1..Len(results) :
                results[j].matchStrength <= results[i].matchStrength
        /\ \A j \in 1..(i - 1) :
                results[j].matchStrength < results[i].matchStrength

\* creditCardType(cardNumber) for a digit string
BestOrAll(results) ==
    IF /\ Len(results) > 0
       /\ \A j \in 1..Len(results) : results[j].matchStrength > 0
    THEN << results[BestMatch(results)] >>
    ELSE results

GetCardTypes(cardNumber) ==
    IF Len(cardNumber) = 0
    THEN [k \in 1..Len(CardTypes) |->
            [type |-> CardTypes[k].type, lengths |-> CardTypes[k].lengths,
             matchStrength |-> 0]]
    ELSE BestOrAll(MatchingCards(cardNumber, Len(CardTypes)))

\* luhn10 of card-validator
Luhn10Digit(num, alt) ==
    IF alt THEN (IF num * 2 > 9 THEN ((num * 2) % 10) + 1 ELSE num * 2)
    ELSE num

RECURSIVE Luhn10Loop(_, _, _, _)
Luhn10Loop(identifier, i, sum, alt) ==
    IF i < 1 THEN sum
    ELSE Luhn10Loop(identifier, i - 1,
                    sum + Luhn10Digit(parseInt(identifier[i]), alt), ~alt)

luhn10(identifier) ==
    Luhn10Loop(identifier, Len(identifier), 0, FALSE) % 10 = 0

NoCard == [type |-> "null", lengths |-> {}, matchStrength |-> 0]

Max(S) == CHOOSE x \in S : \A y \in S : y <= x

verification(card, isPotentiallyValid, isValid) ==
    [card |-> card, isPotentiallyValid |-> isPotentiallyValid,
     isValid |-> isValid]

\* valid.number: the result once the card type is known
VerifyLength(testCardValue, cardType, isValid, maxLength) ==
    IF Len(testCardValue) \in cardType.lengths
    THEN verification(cardType,
            Len(testCardValue) < maxLength \/ isValid, isValid)
    ELSE verification(cardType, Len(testCardValue) < maxLength, FALSE)

VerifyType(testCardValue, cardType) ==
    VerifyLength(testCardValue, cardType,
        IF cardType.type = "unionpay" THEN TRUE ELSE luhn10(testCardValue),
        Max(cardType.lengths))

VerifyTypes(testCardValue, potentialTypes) ==
    IF Len(potentialTypes) = 0
    THEN verification(NoCard, FALSE, FALSE)
    ELSE IF Len(potentialTypes) # 1
    THEN verification(NoCard, TRUE, FALSE)
    ELSE VerifyType(testCardValue, potentialTypes[1])

VerifyDigits(testCardValue) ==
    IF ~AllDigits(testCardValue)
    THEN verification(NoCard, FALSE, FALSE)
    ELSE VerifyTypes(testCardValue, GetCardTypes(testCardValue))

\* valid.number(value) for a string value, without options
validNumber(value) == VerifyDigits(StripDashSpace(value))

----------------------------------------------------------------------------
(* Card validation block of POST /api/checkout, src/server.js lines 73-110 *)

Outcome(kind, brand) == [kind |-> kind, brand |-> brand]

\* lines 89-102: the length rules by card type
LengthRuleBroken(type, len) ==
    \/ type \in {"visa", "mastercard", "discover"} /\ len # 16
    \/ type = "american-express" /\ len # 15

\* variant: the result of the Luhn step is taken the wrong way round
luhnStepInverted(cardNumber) == ~luhnCheck(cardNumber)

\* line 104
luhnStep(cardNumber) == luhnCheck(cardNumber)

\* variant: the library's isPotentiallyValid is not consulted
PotentiallyValidAlways(numberValidation) == TRUE

\* line 76
PotentiallyValid(numberValidation) == numberValidation.isPotentiallyValid

\* hasNumber: payload.card && payload.card.number is a (possibly empty)
\* string; number: that string
\* lines 76-109, given cardNumber and numberValidation of lines 74-75
CheckCard(cardNumber, numberValidation) ==
    IF ~PotentiallyValid(numberValidation)
    THEN Outcome("InvalidFormat", "none")
    ELSE IF ~numberValidation.isValid
    THEN Outcome("ValidationFailed", "none")
    ELSE IF LengthRuleBroken(numberValidation.card.type, Len(cardNumber))
    THEN Outcome("InvalidLength", numberValidation.card.type)
    ELSE IF ~luhnStep(cardNumber)
    THEN Outcome("ChecksumFailed", numberValidation.card.type)
    ELSE Outcome("ok", numberValidation.card.type)

\* line 74
CardNumberOf(number) == StripSpace(number)

\* hasNumber: payload.card && payload.card.number is a (possibly empty)
\* string; number: that string
validateCard(hasNumber, number) ==
    IF ~hasNumber \/ Len(number) = 0
    THEN Outcome("skipped", "none")
    ELSE CheckCard(CardNumberOf(number), validNumber(CardNumberOf(number)))

Response(status, text) == [status |-> status, text |-> text]

\* the response of each validation failure
ValidationResponse(kind) ==
    CASE kind = "InvalidFormat" -> Response(400, "Invalid card format")
      [] kind = "ValidationFailed" -> Response(400, "Card validation failed")
      [] kind = "InvalidLength" -> Response(400, "Invalid card length")
      [] kind = "ChecksumFailed" -> Response(400, "Invalid card number")

----------------------------------------------------------------------------
(* Test simulation of POST /api/checkout, src/server.js lines 113-183 *)

DigitSeq == <<"0", "1", "2", "3", "4", "5", "6", "7", "8", "9">>

CharOf(d) == DigitSeq[d + 1]

\* the four digits of a group of a card number written in groups of four
Group(n) == << CharOf(n \div 1000), CharOf((n \div 100) % 10),
               CharOf((n \div 10) % 10), CharOf(n % 10) >>

Card16(g) == Group(g[1]) \o Group(g[2]) \o Group(g[3]) \o Group(g[4])

failingCardNumbers ==
    { Card16(<<4012, 0010, 3746, 1114>>), Card16(<<4012, 0010, 3714, 1112>>),
      Card16(<<4532, 4970, 8877, 1651>>) }
declinedCardNumbers ==
    { Card16(<<4000, 0000, 0000, 0002>>), Card16(<<5555, 5555, 5555, 4444>>) }
expiredCardNumbers ==
    { Card16(<<4000, 0000, 0000, 0069>>), Card16(<<5105, 1051, 0510, 5100>>) }
insufficientFundsCards ==
    { Card16(<<4000, 0000, 0000, 9995>>), Card16(<<5555, 5555, 5555, 4477>>) }

\* variant: the fixture lookup uses the number as sent
CleanAsSent(number) == number

\* line 120
CleanCardNumber(number) == StripSpace(number)

\* lines 119-182; amount is the text of payload.amount
TestResponse(hasNumber, number, amount) ==
    LET cleanCardNumber == CleanCardNumber(number)
        known == hasNumber /\ Len(number) > 0
    IN  IF known /\ cleanCardNumber \in failingCardNumbers
        THEN Response(400, "Simulated payment failure")
        ELSE IF known /\ cleanCardNumber \in declinedCardNumbers
        THEN Response(400, "Payment declined")
        ELSE IF known /\ cleanCardNumber \in expiredCardNumbers
        THEN Response(400, "Card expired")
        ELSE IF known /\ cleanCardNumber \in insufficientFundsCards
        THEN Response(400, "Insufficient funds")
        ELSE CASE amount = "92.00" -> Response(200, "SUCCESS test-success")
               [] amount = "15.99" -> Response(200, "PENDING test-pending")
               [] amount = "0.01" -> Response(400, "Amount too small")
               [] OTHER -> Response(200, "SUCCESS mock-checkout")

----------------------------------------------------------------------------
(* Inputs *)

\* longest card number sent (the card types end at 19 digits)
MaxLen == 20

\* longest digit string handed to luhnCheck directly
MaxDigits == 5

Rep(c, n) == [i \in 1..n |-> c]

\* s with sep after every n-th character but the last
RECURSIVE Grouped(_, _, _)
Grouped(s, n, sep) ==
    IF Len(s) <= n THEN s
    ELSE SubSeq(s, 1, n) \o <<sep>> \o Grouped(SubSeq(s, n + 1, Len(s)), n, sep)

\* prefixes of the card types of lines 89-97, of other card types of the
\* library, and of no card type
Prefixes ==
    { <<"4">>, <<"4", "2", "4", "2">>, <<"5", "1">>, <<"2", "2", "2", "1">>,
      <<"3", "4">>, <<"3", "7">>, <<"6", "0", "1", "1">>, <<"6", "5">>,
      <<"3", "6">>, <<"3", "5", "2", "8">>, <<"6", "2", "0">>,
      <<"5", "0", "1", "8">>, <<"4", "0", "1", "1", "7", "8">>,
      <<"1">>, <<"9">>, <<"0">> }

Fills == {"0", "7"}

DigitCards ==
    Prefixes \cup
    UNION { { prefix \o Rep(fill, len - Len(prefix) - 1) \o <<last>> :
                fill \in Fills, len \in (Len(prefix) + 1)..MaxLen,
                last \in DigitChars }
            : prefix \in Prefixes }

FixtureCards ==
    failingCardNumbers \cup declinedCardNumbers \cup expiredCardNumbers
        \cup insufficientFundsCards

\* a number as typed: plain, in groups separated by white space, in groups
\* separated by hyphens, with a letter in place of the last digit
Typed(s) ==
    { s, <<"\t">> \o Grouped(s, 4, " ") \o <<" ">>, Grouped(s, 4, "-"),
      SubSeq(s, 1, Len(s) - 1) \o <<"x">> }

\* the card numbers of the documented examples
ExampleValid == Card16(<<4242, 4242, 4242, 4242>>)
ExampleMutated == Card16(<<4242, 4242, 4242, 4241>>)
ExampleShort == <<"1", "2", "3">>
ExampleAmex14 == Group(3434) \o Group(3434) \o Group(3434) \o <<"3", "4">>

ExampleCards == {ExampleValid, ExampleMutated, ExampleShort, ExampleAmex14}

CardInputs ==
    UNION { Typed(s) : s \in DigitCards \cup FixtureCards \cup ExampleCards }
        \cup { << >>, <<" ">>, <<"\t", " ">> }

\* the digit strings of n digits
DigitStrings(n) == [1..n -> DigitChars]

Amounts == {"92.00", "15.99", "0.01", "10.00"}

Payload(fields, hasNumber, number, amount) ==
    [fields |-> fields, hasNumber |-> hasNumber,
     number |-> IF hasNumber THEN number ELSE << >>, amount |-> amount]

NoPayload == Payload(FALSE, FALSE, << >>, "")

\* fields: authentication.entityId, merchantTransactionId, currency, nonce
\* and shopperResultUrl are all given; amount "" is a missing amount
CheckoutPayloads ==
    { Payload(TRUE, TRUE, n, "10.00") : n \in CardInputs }
        \cup { Payload(f, h, n, a) :
                f \in BOOLEAN, h \in BOOLEAN, n \in FixtureCards,
                a \in Amounts \cup {""} }

\* request bodies: the text of a checkout payload, and webhook texts
PayloadText == "JSON.stringify(payload)"
BrokenText == "{\"event\":"
CompactText == "{\"event\":\"paid\"}"
SpacedText == "{ \"event\": \"paid\" }"
ArrayText == "[\"paid\"]"
StringText == "\"paid\""

WebhookTexts ==
    {CompactText, SpacedText, ArrayText, StringText, BrokenText, ""}

ContentTypes == {"application/json", "text/plain"}

\* process.env.PEACH_WEBHOOK_SECRET, taken to be set
webhookSecret == "whsec"

\* a header value: undefined, or a string given by its parts
Undefined == [kind |-> "undefined", hex |-> << >>]
Str(parts) == [kind |-> "string", hex |-> parts]

\* crypto.createHmac('sha256', secret).update(bytes).digest('hex'): a
\* function of the key and of the bytes, different for different bytes
HmacHex(secret, bytes) == Str(<<"hmac-sha256", secret, bytes>>)

Signatures(text) ==
    { Undefined, Str(<< >>), Str(<<"00">>), HmacHex(webhookSecret, text),
      HmacHex(webhookSecret, CompactText) }

Request(url, contentType, text, payload, signature) ==
    [url |-> url, contentType |-> contentType, text |-> text,
     payload |-> payload, signature |-> signature]

NoRequest == Request("none", "", "", NoPayload, Undefined)

CheckoutRequests ==
    { Request("/api/checkout", "application/json", PayloadText, p, Undefined) :
        p \in CheckoutPayloads }
    \cup { Request("/api/checkout", ct, x, Payload(TRUE, FALSE, << >>, "10.00"),
                   Undefined) :
            ct \in ContentTypes, x \in {PayloadText, BrokenText, ""} }

WebhookRequests ==
    UNION { { Request("/api/webhook", ct, x, NoPayload, s) :
                ct \in ContentTypes, s \in Signatures(x) }
            : x \in WebhookTexts }

----------------------------------------------------------------------------
(* body-parser and JSON, as used at src/server.js lines 22, 219 and 244 *)

\* a value of req.body: kind is its JavaScript type; data is the bytes of a
\* Buffer, or JSON.stringify of a parsed value; payload is the checkout view
Value(kind, data, payload) == [kind |-> kind, data |-> data, payload |-> payload]

UndefinedBody == Value("undefined", "", NoPayload)
EmptyObject == Value("Object", "{}", NoPayload)

\* JSON.parse(text) of the texts considered
JSONparse(text, payload) ==
    CASE text = PayloadText -> [ok |-> TRUE, value |-> Value("Object", PayloadText, payload)]
      [] text = CompactText -> [ok |-> TRUE, value |-> Value("Object", CompactText, NoPayload)]
      [] text = SpacedText -> [ok |-> TRUE, value |-> Value("Object", CompactText, NoPayload)]
      [] text = ArrayText -> [ok |-> TRUE, value |-> Value("Array", ArrayText, NoPayload)]
      [] text = StringText -> [ok |-> TRUE, value |-> Value("String", StringText, NoPayload)]
      [] OTHER -> [ok |-> FALSE, value |-> UndefinedBody]

\* the first character of the text that is not white space
FirstChar(text) ==
    CASE text \in {PayloadText, CompactText, SpacedText, BrokenText} -> "{"
      [] text = ArrayText -> "["
      [] text = StringText -> "\""
      [] OTHER -> ""

\* typeis.hasBody(req) and the type test of a parser of type application/json
HasBody(r) == r.text # ""
ShouldParse(r) == r.contentType = "application/json"

\* req.body = req.body || {}  (body-parser 1.x; under 2.x req.body stays
\* undefined, which Hmac.update rejects in the same way)
OrEmpty(b) == IF b.kind = "undefined" THEN EmptyObject ELSE b

\* Buffer.isBuffer(x) || typeof x === 'string': what Hmac.update accepts
IsBytes(v) == v.kind \in {"Buffer", "string"}

\* !signature
Falsy(h) == h.kind = "undefined" \/ h.hex = << >>

----------------------------------------------------------------------------
(* The server *)

IsProduction(e) == e = "production"

Init ==
    /\ env \in {"production", "development"}
    /\ req = NoRequest
    /\ pc = "idle"
    /\ body = UndefinedBody
    /\ bodyRead = FALSE
    /\ res = << >>
    /\ outcome = Outcome("none", "none")
    /\ upstream = 0
    /\ hmacArgs = << >>
    /\ verified = FALSE
    /\ parses = 0
    /\ luhnArg = << >>
    /\ luhnRes = "none"

\* a request arrives; the server is between requests
Receive ==
    /\ pc = "idle"
    /\ \E r \in CheckoutRequests \cup WebhookRequests : req' = r
    /\ pc' = "json"
    /\ body' = UndefinedBody
    /\ bodyRead' = FALSE
    /\ res' = << >>
    /\ outcome' = Outcome("none", "none")
    /\ upstream' = 0
    /\ hmacArgs' = << >>
    /\ verified' = FALSE
    /\ parses' = 0
    /\ UNCHANGED <<env, luhnArg, luhnRes>>

\* line 22: app.use(bodyParser.json()), for every route; a parse error goes
\* to the default error handler, which answers with the error's status
JsonMiddleware ==
    /\ pc = "json"
    /\ LET next == IF req.url = "/api/webhook" THEN "raw" ELSE "handler"
           parsed == JSONparse(req.text, req.payload)
       IN  IF bodyRead
           THEN /\ pc' = next
                /\ UNCHANGED <<body, bodyRead, res, parses>>
           ELSE IF ~HasBody(req) \/ ~ShouldParse(req)
           THEN /\ pc' = next
                /\ body' = OrEmpty(body)
                /\ UNCHANGED <<bodyRead, res, parses>>
           ELSE IF FirstChar(req.text) \notin {"{", "["} \/ ~parsed.ok
           THEN /\ pc' = "done"
                /\ body' = OrEmpty(body)
                /\ res' = Append(res, Response(400, "entity.parse.failed"))
                /\ UNCHANGED <<bodyRead, parses>>
           ELSE /\ pc' = next
                /\ body' = parsed.value
                /\ bodyRead' = TRUE
                /\ parses' = parses + 1
                /\ UNCHANGED res
    /\ UNCHANGED <<env, req, outcome, upstream, hmacArgs, verified,
                   luhnArg, luhnRes>>

\* line 219: bodyParser.raw({ type: 'application/json' }) of the webhook route
RawMiddleware ==
    /\ pc = "raw"
    /\ pc' = "handler"
    /\ IF bodyRead
       THEN UNCHANGED <<body, bodyRead>>
       ELSE IF ~HasBody(req) \/ ~ShouldParse(req)
       THEN /\ body' = OrEmpty(body)
            /\ UNCHANGED bodyRead
       ELSE /\ body' = Value("Buffer", req.text, NoPayload)
            /\ bodyRead' = TRUE
    /\ UNCHANGED <<env, req, res, outcome, upstream, hmacArgs, verified,
                   parses, luhnArg, luhnRes>>

\* lines 219-260: the webhook handler; an exception it throws goes to the
\* default error handler, which answers 500
WebhookHandler ==
    /\ pc = "handler"
    /\ req.url = "/api/webhook"
    /\ pc' = "done"
    /\ LET signature == req.signature
           computedSignature == HmacHex(webhookSecret, body.data)
           eventData == JSONparse(body.data, NoPayload)
       IN  IF Falsy(signature)
           THEN /\ res' = Append(res, Response(400, "Missing signature header"))
                /\ UNCHANGED <<hmacArgs, verified, parses>>
           ELSE IF ~IsBytes(body)
           THEN /\ hmacArgs' = Append(hmacArgs, body)
                /\ res' = Append(res, Response(500, "TypeError"))
                /\ UNCHANGED <<verified, parses>>
           ELSE IF computedSignature # signature
           THEN /\ hmacArgs' = Append(hmacArgs, body)
                /\ res' = Append(res, Response(401, "Invalid signature"))
                /\ UNCHANGED <<verified, parses>>
           ELSE IF ~eventData.ok
           THEN /\ hmacArgs' = Append(hmacArgs, body)
                /\ verified' = TRUE
                /\ res' = Append(res, Response(400, "Invalid JSON"))
                /\ UNCHANGED parses
           ELSE /\ hmacArgs' = Append(hmacArgs, body)
                /\ verified' = TRUE
                /\ parses' = parses + 1
                /\ res' = Append(res, Response(200, "Webhook received"))
    /\ UNCHANGED <<env, req, body, bodyRead, outcome, upstream,
                   luhnArg, luhnRes>>

\* lines 60-65
RequiredFieldsGiven(payload) == payload.fields /\ payload.amount # ""

\* lines 76-109 return unless the block was skipped or passed
ValidationPassed(kind) == kind \in {"skipped", "ok"}

\* variant: the test simulation is never taken
TestModeNever(e) == FALSE

\* line 113
TestMode(e) == ~IsProduction(e)

\* lines 54-186: the checkout handler up to its response or, in production,
\* up to the fetch it awaits
CheckoutHandler ==
    /\ pc = "handler"
    /\ req.url = "/api/checkout"
    /\ LET payload == body.payload
           validation == validateCard(payload.hasNumber, payload.number)
       IN  IF ~RequiredFieldsGiven(payload)
           THEN /\ res' = Append(res, Response(400, "Missing required fields"))
                /\ pc' = "done"
                /\ UNCHANGED <<outcome, upstream>>
           ELSE IF ~ValidationPassed(validation.kind)
           THEN /\ outcome' = validation
                /\ res' = Append(res, ValidationResponse(validation.kind))
                /\ pc' = "done"
                /\ UNCHANGED upstream
           ELSE IF TestMode(env)
           THEN /\ outcome' = validation
                /\ res' = Append(res, TestResponse(payload.hasNumber,
                                        payload.number, payload.amount))
                /\ pc' = "done"
                /\ UNCHANGED upstream
           ELSE /\ outcome' = validation
                /\ upstream' = upstream + 1
                /\ pc' = "fetch"
                /\ UNCHANGED res
    /\ UNCHANGED <<env, req, body, bodyRead, hmacArgs, verified, parses,
                   luhnArg, luhnRes>>

\* lines 186-214: the fetch settles: the provider answers ok or not ok, or
\* fetch / peachResponse.json() rejects and the catch block answers 500
UpstreamReply ==
    /\ pc = "fetch"
    /\ pc' = "done"
    /\ \E reply \in { Response(200, "responseData"),
                      Response(402, "Error from payment provider"),
                      Response(500, "Internal server error") } :
            res' = Append(res, reply)
    /\ UNCHANGED <<env, req, body, bodyRead, outcome, upstream, hmacArgs,
                   verified, parses, luhnArg, luhnRes>>

\* the response has been sent and the request's objects are dropped; the
\* server keeps nothing from one request to the next
Finish ==
    /\ pc = "done"
    /\ pc' = "idle"
    /\ req' = NoRequest
    /\ body' = UndefinedBody
    /\ bodyRead' = FALSE
    /\ res' = << >>
    /\ outcome' = Outcome("none", "none")
    /\ upstream' = 0
    /\ hmacArgs' = << >>
    /\ verified' = FALSE
    /\ parses' = 0
    /\ UNCHANGED <<env, luhnArg, luhnRes>>

Next ==
    \/ Receive
    \/ Finish
    \/ JsonMiddleware
    \/ RawMiddleware
    \/ WebhookHandler
    \/ CheckoutHandler
    \/ UpstreamReply

Spec == Init /\ [][Next]_vars

----------------------------------------------------------------------------
(* luhnCheck called directly on a digit string *)

InitLuhn ==
    /\ env = "development"
    /\ req = NoRequest
    /\ pc = "idle"
    /\ body = UndefinedBody
    /\ bodyRead = FALSE
    /\ res = << >>
    /\ outcome = Outcome("none", "none")
    /\ upstream = 0
    /\ hmacArgs = << >>
    /\ verified = FALSE
    /\ parses = 0
    /\ \E n \in 0..MaxDigits : \E s \in DigitStrings(n) :
            luhnArg \in { s, Grouped(s, 2, " ") }
    /\ luhnRes = "none"

CallLuhn ==
    /\ luhnRes = "none"
    /\ luhnRes' = IF luhnCheck(luhnArg) THEN "true" ELSE "false"
    /\ UNCHANGED <<env, req, pc, body, bodyRead, res, outcome, upstream,
                   hmacArgs, verified, parses, luhnArg>>

NextLuhn == CallLuhn

SpecLuhn == InitLuhn /\ [][NextLuhn]_vars

----------------------------------------------------------------------------
(* Properties *)

\* the card validation block has run on the request's card number
Validated == req.url = "/api/checkout" /\ outcome.kind \notin {"none", "skipped"}

\* the card number of the request with its white space removed
Canonical == StripSpace(req.payload.number)

\* the Luhn sum as the specification words it: every second digit counted
\* from the right is doubled, and reduced by 9 when the double exceeds 9
RefTerm(d, fromRight) ==
    IF fromRight % 2 = 0 THEN (IF 2 * d > 9 THEN 2 * d - 9 ELSE 2 * d) ELSE d

RECURSIVE RefSumTo(_, _)
RefSumTo(s, k) ==
    IF k = 0 THEN 0
    ELSE RefSumTo(s, k - 1) + RefTerm(parseInt(s[k]), Len(s) - k + 1)

RefLuhn(s) == RefSumTo(s, Len(s)) % 10 = 0

\* C4: for every digit string (white space removed) luhnCheck returns true
\* exactly when the sum of its digits, every second one from the right
\* doubled and reduced by 9 above 9, is divisible by 10
C4_LuhnIffSumDivisible ==
    luhnRes # "none" =>
        (luhnRes = "true" <=> RefLuhn(StripSpace(luhnArg)))

\* a call that returned true on a string with a doubled digit above 9 and
\* white space inside
C4_Witness ==
    /\ luhnRes = "true"
    /\ luhnArg = <<"5", "9", " ", "5", "9">>

\* the brand of a digit string by the prefix rules of the specification
SpecBrand(s) ==
    IF Len(s) < 4 THEN "unknown"
    ELSE IF ToInt(s, 1) = 4 THEN "visa"
    ELSE IF ToInt(s, 2) \in 51..55 \/ ToInt(s, 4) \in 2221..2720
    THEN "mastercard"
    ELSE IF ToInt(s, 2) \in {34, 37} THEN "american-express"
    ELSE IF ToInt(s, 4) = 6011 \/ ToInt(s, 2) = 65 \/ ToInt(s, 3) \in 644..649
    THEN "discover"
    ELSE "unknown"

\* the format check of the specification
SpecFormatOk(s) == AllDigits(s) /\ Len(s) \in 12..19

\* the length-by-brand rule of the specification
SpecLengthOk(s) ==
    /\ SpecBrand(s) \in {"visa", "mastercard", "discover"} => Len(s) = 16
    /\ SpecBrand(s) = "american-express" => Len(s) = 15

\* C5: a card number that passes the format check, with a prefix that
\* identifies a brand and a length other than the brand's, fails with
\* InvalidLength and with no other failure kind
C5_WrongLengthIsInvalidLength ==
    (Validated /\ SpecFormatOk(Canonical) /\ ~SpecLengthOk(Canonical))
        => outcome.kind = "InvalidLength"

\* C6: a card number that passes the format check and the length-by-brand
\* check and does not satisfy the Luhn relation fails with ChecksumFailed,
\* the failure of the Luhn step, and with no other failure kind
C6_BadChecksumIsChecksumFailed ==
    (Validated /\ SpecFormatOk(Canonical) /\ SpecLengthOk(Canonical)
        /\ ~RefLuhn(Canonical))
        => outcome.kind = "ChecksumFailed"

\* a digit string of length 16 that satisfies the Luhn relation went through
\* the card validation block
Validated16 ==
    Validated /\ AllDigits(Canonical) /\ Len(Canonical) = 16
        /\ RefLuhn(Canonical)

\* C7 as stated: every digit string of length 16 that satisfies the Luhn
\* relation passes card validation, those of no known brand included
C7_Every16LuhnPasses == Validated16 => outcome.kind = "ok"

\* C7, amended: a digit string of length 16 that satisfies the Luhn relation
\* passes card validation exactly when the library knows a card type for
\* its prefix that allows 16 digits, and the brand is then that type; with
\* no such type it fails with InvalidFormat
C7_Known16LuhnPasses ==
    Validated16 =>
        IF /\ Len(GetCardTypes(Canonical)) = 1
           /\ 16 \in GetCardTypes(Canonical)[1].lengths
        THEN outcome = Outcome("ok", GetCardTypes(Canonical)[1].type)
        ELSE outcome.kind = "InvalidFormat"

\* the documented valid visa number passed, typed with white space
C7_Witness ==
    /\ Validated16
    /\ Canonical = ExampleValid
    /\ req.payload.number # ExampleValid
    /\ outcome = Outcome("ok", "visa")

\* C8 as stated: an input that has a non-digit character or a length outside
\* 12 to 19 fails with InvalidFormat and with no other failure kind
C8_BadFormatIsInvalidFormat ==
    (Validated /\ ~SpecFormatOk(Canonical)) => outcome.kind = "InvalidFormat"

\* s has a character that is neither a digit nor a hyphen
OtherChar(s) == \E i \in 1..Len(s) : s[i] \notin DigitChars \cup {"-"}

\* C8, amended: an input with a character other than a digit or a hyphen, or
\* of more than 19 digits, fails with InvalidFormat only; an input of fewer
\* than 12 digits fails with InvalidFormat when no card type of the library
\* matches it and with the library's 'Card validation failed' when one does
C8_BadFormatRejected ==
    /\ (Validated /\ (OtherChar(Canonical)
                        \/ (AllDigits(Canonical) /\ Len(Canonical) > 19)))
            => outcome.kind = "InvalidFormat"
    /\ (Validated /\ AllDigits(Canonical) /\ Len(Canonical) < 12)
            => outcome.kind =
                IF Len(GetCardTypes(Canonical)) = 0
                THEN "InvalidFormat" ELSE "ValidationFailed"

\* the documented short input was rejected for its format
C8_Witness ==
    /\ Validated
    /\ Canonical = ExampleShort
    /\ outcome.kind = "InvalidFormat"
    /\ res = << Response(400, "Invalid card format") >>

\* the checkout handler has answered or awaits the payment provider
Handled ==
    /\ req.url = "/api/checkout"
    /\ req.payload.hasNumber
    /\ outcome.kind # "none"

\* C9 as stated: for every card number string, the validation outcome and the
\* test-mode response are those of the string with its white space removed
C9_WhitespaceInsensitive ==
    Handled =>
        /\ outcome = validateCard(TRUE, Canonical)
        /\ (pc = "done" /\ TestMode(env) /\ ValidationPassed(outcome.kind))
                => res = << TestResponse(TRUE, Canonical, req.payload.amount) >>

\* C9, amended: the same for every card number string that has a character
\* other than white space
C9_WhitespaceInsensitiveNonBlank ==
    (Handled /\ Len(Canonical) > 0) =>
        /\ outcome = validateCard(TRUE, Canonical)
        /\ (pc = "done" /\ TestMode(env) /\ ValidationPassed(outcome.kind))
                => res = << TestResponse(TRUE, Canonical, req.payload.amount) >>

\* a fixture card typed with white space got its fixture response
C9_Witness ==
    /\ Handled
    /\ pc = "done"
    /\ Canonical \in declinedCardNumbers
    /\ req.payload.number # Canonical
    /\ res = << Response(400, "Payment declined") >>

\* C10: the payment API is called only in production and only for a request
\* that passed the required-fields check and, with a card number, every card
\* validation check; a request that misses a field, fails validation or is
\* served outside production is answered without a call; every request gets
\* exactly one response
C10_UpstreamOnlyWhenAllowed ==
    /\ upstream > 0 =>
        /\ req.url = "/api/checkout"
        /\ env = "production"
        /\ req.text = PayloadText /\ req.contentType = "application/json"
        /\ req.payload.fields /\ req.payload.amount # ""
        /\ validateCard(req.payload.hasNumber, req.payload.number).kind
                \in {"skipped", "ok"}
    /\ upstream <= 1
    /\ Len(res) <= 1
    /\ pc = "done" => Len(res) = 1
    /\ pc = "fetch" => (upstream = 1 /\ res = << >>)
    /\ pc \in {"idle", "json", "raw", "handler"} => res = << >>

\* a production checkout with a valid card got the provider's answer after
\* one call
C10_Witness ==
    /\ pc = "done"
    /\ env = "production"
    /\ upstream = 1
    /\ outcome = Outcome("ok", "visa")
    /\ res = << Response(200, "responseData") >>

\* C1: in every webhook request the value handed to the HMAC is the raw
\* bytes of the body as received, never a parsed or re-serialized form
C1_HmacOverRawBytes ==
    req.url = "/api/webhook" =>
        \A i \in 1..Len(hmacArgs) :
            hmacArgs[i] = Value("Buffer", req.text, NoPayload)

\* C2: a webhook request without a signature, or with an empty one, ends
\* with 400 'Missing signature header' and computes no HMAC
C2_MissingSignatureRejected ==
    (req.url = "/api/webhook" /\ Falsy(req.signature)) =>
        /\ hmacArgs = << >>
        /\ pc = "done" =>
                res = << Response(400, "Missing signature header") >>

\* C3: in a webhook request the payload is parsed, and acknowledged with 200,
\* only after the signatures were found equal; a mismatch ends with 401 and
\* no parse; a parse failure after verification ends with 400 'Invalid JSON'
C3_ParseOnlyAfterVerification ==
    req.url = "/api/webhook" =>
        /\ parses > 0 => verified
        /\ (pc = "done" /\ res = << Response(200, "Webhook received") >>)
                => verified
        /\ (pc = "done" /\ ~Falsy(req.signature)
                /\ req.signature # HmacHex(webhookSecret, req.text))
                => (res = << Response(401, "Invalid signature") >>
                        /\ parses = 0)
        /\ (pc = "done" /\ req.signature = HmacHex(webhookSecret, req.text)
                /\ ~JSONparse(req.text, NoPayload).ok)
                => res = << Response(400, "Invalid JSON") >>

====
